---- MODULE Spec2Model ----
(***************************************************************************)
(* RBAC permission model of the weaviate python client                     *)
(* (src/weaviate/rbac/models.py): action enums, permission variants and    *)
(* their wire projection, Role parsing and flattening, and the Permissions *)
(* builders; and TransformationAgent.update_all of                         *)
(* src/weaviate/agents/transformation/transformation.py.                   *)
(*                                                                         *)
(* Representation.  Python strings that the code only compares or copies   *)
(* (actions, tenants, role names, user names, verbosity, scope) are TLA+   *)
(* strings.  Collection names, which the code transforms, are sequences of *)
(* one-character strings.  A Python dict is a record whose DOMAIN is the   *)
(* set of keys present; None is the record NoneValue.                      *)
(***************************************************************************)
EXTENDS Integers, Sequences, FiniteSets, TLC

VARIABLES op, args, ret, raised, warnings

\* The state of a TransformationAgent and of its update_all coroutine.
VARIABLES pc, operations, index, responses, requests, replies, result, exception

rbacVars == <<op, args, ret, raised, warnings>>

agentVars == <<pc, operations, index, responses, requests, replies, result, exception>>

vars == <<op, args, ret, raised, warnings,
          pc, operations, index, responses, requests, replies, result, exception>>

\* ------------------------------------------------------------------ bounds

\* Longest permission list of a wire role handed to Role._from_weaviate_role.
MaxPerms == 3

\* Longest sequence of scoping values handed to a Permissions builder.
MaxScoping == 2

\* Longest per-category list of a directly composed Role.
MaxBucket == 2

\* Longest list of operations a TransformationAgent is configured with.
MaxOps == 3

\* ------------------------------------------------------------- Python values

\* Python's None (also the value dict.get returns for a missing key).
NoneValue == [none |-> TRUE]

\* The exception state of a call that returned normally.
NoError == "none"

\* ------------------------------------------------------------ action enums

\* Each enum is the record of its members; <Enum>_values is Enum.values(), the
\* member values in declaration order.
CollectionsAction ==
    [CREATE |-> "create_collections", READ |-> "read_collections",
     UPDATE |-> "update_collections", DELETE |-> "delete_collections",
     MANAGE |-> "manage_collections"]

CollectionsAction_values ==
    <<CollectionsAction.CREATE, CollectionsAction.READ, CollectionsAction.UPDATE,
      CollectionsAction.DELETE, CollectionsAction.MANAGE>>

TenantsAction ==
    [CREATE |-> "create_tenants", READ |-> "read_tenants",
     UPDATE |-> "update_tenants", DELETE |-> "delete_tenants"]

TenantsAction_values ==
    <<TenantsAction.CREATE, TenantsAction.READ, TenantsAction.UPDATE,
      TenantsAction.DELETE>>

\* DataAction with MANAGE given the string of CollectionsAction.MANAGE.
DataAction_overlapping ==
    [CREATE |-> "create_data", READ |-> "read_data", UPDATE |-> "update_data",
     DELETE |-> "delete_data", MANAGE |-> "manage_collections"]

DataAction ==
    [CREATE |-> "create_data", READ |-> "read_data", UPDATE |-> "update_data",
     DELETE |-> "delete_data", MANAGE |-> "manage_data"]

DataAction_values ==
    <<DataAction.CREATE, DataAction.READ, DataAction.UPDATE, DataAction.DELETE,
      DataAction.MANAGE>>

RolesAction == [MANAGE |-> "manage_roles", READ |-> "read_roles"]

RolesAction_values == <<RolesAction.MANAGE, RolesAction.READ>>

UsersAction == [ASSIGN_AND_REVOKE |-> "assign_and_revoke_users"]

UsersAction_values == <<UsersAction.ASSIGN_AND_REVOKE>>

ClusterAction == [READ |-> "read_cluster"]

ClusterAction_values == <<ClusterAction.READ>>

NodesAction == [READ |-> "read_nodes"]

NodesAction_values == <<NodesAction.READ>>

BackupsAction == [MANAGE |-> "manage_backups"]

BackupsAction_values == <<BackupsAction.MANAGE>>

\* RoleScope: RoleScope(x) raises ValueError for an x that is no member value.
RoleScope == [MATCH |-> "match", ALL |-> "all"]

RoleScope_values == <<RoleScope.MATCH, RoleScope.ALL>>

\* x in <list>
In(x, list) == \E i \in 1..Len(list) : list[i] = x

Range(list) == {list[i] : i \in 1..Len(list)}

\* ------------------------------------------------------- string conversion

\* The upper-case form of the lower-case letters the model uses.
UpperOf == ("a" :> "A") @@ ("b" :> "B") @@ ("f" :> "F") @@ ("o" :> "O")

\* str.capitalize() of a one-character string.
CapitalizeChar(c) == IF c \in DOMAIN UpperOf THEN UpperOf[c] ELSE c

\* weaviate.util._capitalize_first_letter: the first character upper-cased,
\* the rest unchanged.
capitalize_first_letter(string) ==
    <<CapitalizeChar(Head(string))>> \o Tail(string)

\* --------------------------------------------------------- permission variants

CollectionsPermission(collection, tenant, action) ==
    [category |-> "collections", collection |-> collection, tenant |-> tenant,
     action |-> action]

TenantsPermission(collection, action) ==
    [category |-> "tenants", collection |-> collection, action |-> action]

NodesPermission(collection, verbosity, action) ==
    [category |-> "nodes", collection |-> collection, verbosity |-> verbosity,
     action |-> action]

\* scope: Optional[str] = None; an unset scope is the string NoScope.
NoScope == "None"

RolesPermission(role, scope, action) ==
    [category |-> "roles", role |-> role, scope |-> scope, action |-> action]

UsersPermission(action, users) ==
    [category |-> "users", action |-> action, users |-> users]

BackupsPermission(collection, action) ==
    [category |-> "backups", collection |-> collection, action |-> action]

ClusterPermission(action) ==
    [category |-> "cluster", action |-> action]

DataPermission(collection, action) ==
    [category |-> "data", collection |-> collection, action |-> action]

\* ------------------------------------------------------ projection to the wire

CollectionsPermission_to_weaviate(self) ==
    [action |-> self.action,
     collections |-> [collection |-> capitalize_first_letter(self.collection),
                      tenant |-> self.tenant]]

\* _TenantsPermission._to_weaviate naming a specific tenant.
TenantsPermission_to_weaviate_named_tenant(self) ==
    [action |-> self.action,
     tenants |-> [collection |-> capitalize_first_letter(self.collection),
                  tenant |-> "tenantA"]]

\* _TenantsPermission._to_weaviate filling the collections key as well.
TenantsPermission_to_weaviate_two_keys(self) ==
    [action |-> self.action,
     tenants |-> [collection |-> capitalize_first_letter(self.collection),
                  tenant |-> "*"],
     collections |-> [collection |-> capitalize_first_letter(self.collection),
                      tenant |-> "*"]]

TenantsPermission_to_weaviate(self) ==
    [action |-> self.action,
     tenants |-> [collection |-> capitalize_first_letter(self.collection),
                  tenant |-> "*"]]

NodesPermission_to_weaviate(self) ==
    [action |-> self.action,
     nodes |-> [collection |-> capitalize_first_letter(self.collection),
                verbosity |-> self.verbosity]]

RolesPermission_to_weaviate(self) ==
    [action |-> self.action,
     roles |-> IF self.scope # NoScope
               THEN [role |-> self.role, scope |-> self.scope]
               ELSE [role |-> self.role]]

UsersPermission_to_weaviate(self) ==
    [action |-> self.action, users |-> [users |-> self.users]]

BackupsPermission_to_weaviate(self) ==
    [action |-> self.action,
     backups |-> [collection |-> capitalize_first_letter(self.collection)]]

ClusterPermission_to_weaviate(self) ==
    [action |-> self.action]

\* _DataPermission._to_weaviate sending the collection as given, not
\* capitalized.
DataPermission_to_weaviate_verbatim(self) ==
    [action |-> self.action, data |-> [collection |-> self.collection]]

DataPermission_to_weaviate(self) ==
    [action |-> self.action,
     data |-> [collection |-> capitalize_first_letter(self.collection)]]

\* Dynamic dispatch of permission._to_weaviate() on the variant's class.
to_weaviate(self) ==
    CASE self.category = "collections" -> CollectionsPermission_to_weaviate(self)
      [] self.category = "tenants" -> TenantsPermission_to_weaviate(self)
      [] self.category = "nodes" -> NodesPermission_to_weaviate(self)
      [] self.category = "roles" -> RolesPermission_to_weaviate(self)
      [] self.category = "users" -> UsersPermission_to_weaviate(self)
      [] self.category = "backups" -> BackupsPermission_to_weaviate(self)
      [] self.category = "cluster" -> ClusterPermission_to_weaviate(self)
      [] self.category = "data" -> DataPermission_to_weaviate(self)

\* ------------------------------------------------------------------- Role

\* The wildcard collection name "*".
Star == <<"*">>

\* dict.get(key): the value, or None when the key is missing.
Get(dict, key) == IF key \in DOMAIN dict THEN dict[key] ELSE NoneValue

\* The dataclass Role, built from a name and the eight per-category lists.
Role(name, lists) ==
    [name |-> name,
     cluster_permissions |-> lists.cluster_permissions,
     collections_permissions |-> lists.collections_permissions,
     data_permissions |-> lists.data_permissions,
     roles_permissions |-> lists.roles_permissions,
     users_permissions |-> lists.users_permissions,
     backups_permissions |-> lists.backups_permissions,
     nodes_permissions |-> lists.nodes_permissions,
     tenants_permissions |-> lists.tenants_permissions]

\* Role.permissions with the tenants list moved to the front.
Role_permissions_tenants_first(self) ==
    self.tenants_permissions \o self.cluster_permissions
        \o self.collections_permissions \o self.data_permissions
        \o self.roles_permissions \o self.users_permissions
        \o self.backups_permissions \o self.nodes_permissions

\* The property Role.permissions.
Role_permissions(self) ==
    self.cluster_permissions \o self.collections_permissions
        \o self.data_permissions \o self.roles_permissions
        \o self.users_permissions \o self.backups_permissions
        \o self.nodes_permissions \o self.tenants_permissions

\* _Warnings.unknown_permission_encountered: one warning that carries the
\* offending record is handed to the warning sink.
unknown_permission_encountered(sink, permission) == Append(sink, permission)

\* The local lists of _from_weaviate_role before its loop; raised is the
\* exception that left the loop, warned the warnings issued so far.
EmptyLists ==
    [raised |-> NoError, warned |-> <<>>,
     cluster_permissions |-> <<>>, users_permissions |-> <<>>,
     collections_permissions |-> <<>>, roles_permissions |-> <<>>,
     data_permissions |-> <<>>, backups_permissions |-> <<>>,
     nodes_permissions |-> <<>>, tenants_permissions |-> <<>>]

Raise(acc, error) == [acc EXCEPT !.raised = error]

\* The branches of the loop body, one per category.
from_weaviate_cluster(acc, permission) ==
    [acc EXCEPT !.cluster_permissions =
        Append(@, ClusterPermission(permission.action))]

from_weaviate_users(acc, permission) ==
    LET users == Get(permission, "users") IN
    IF users = NoneValue THEN acc
    ELSE IF "users" \notin DOMAIN users THEN Raise(acc, "KeyError")
    ELSE [acc EXCEPT !.users_permissions =
            Append(@, UsersPermission(permission.action, users.users))]

\* The collections branch not reading the wire tenant: every parsed tenant
\* is "*".
from_weaviate_collections_tenant_dropped(acc, permission) ==
    LET collections == Get(permission, "collections") IN
    IF collections = NoneValue THEN acc
    ELSE IF "collection" \notin DOMAIN collections THEN Raise(acc, "KeyError")
    ELSE [acc EXCEPT !.collections_permissions =
            Append(@, CollectionsPermission(collections.collection, "*",
                                            permission.action))]

from_weaviate_collections(acc, permission) ==
    LET collections == Get(permission, "collections") IN
    IF collections = NoneValue THEN acc
    ELSE IF "collection" \notin DOMAIN collections THEN Raise(acc, "KeyError")
    ELSE [acc EXCEPT !.collections_permissions =
            Append(@, CollectionsPermission(
                collections.collection,
                IF "tenant" \in DOMAIN collections
                    THEN collections.tenant ELSE "*",
                permission.action))]

from_weaviate_tenants(acc, permission) ==
    LET tenants == Get(permission, "tenants") IN
    IF tenants = NoneValue THEN acc
    ELSE IF "collection" \notin DOMAIN tenants THEN Raise(acc, "KeyError")
    ELSE [acc EXCEPT !.tenants_permissions =
            Append(@, TenantsPermission(tenants.collection, permission.action))]

from_weaviate_roles(acc, permission) ==
    LET roles == Get(permission, "roles") IN
    IF roles = NoneValue THEN acc
    ELSE LET scope == IF "scope" \in DOMAIN roles THEN roles.scope ELSE NoScope
             \* "if scope": None and the empty string are falsy
             truthy == scope # NoScope /\ scope # ""
         IN
         IF "role" \notin DOMAIN roles THEN Raise(acc, "KeyError")
         ELSE IF truthy /\ ~In(scope, RoleScope_values)
             THEN Raise(acc, "ValueError")
         ELSE [acc EXCEPT !.roles_permissions =
                 Append(@, RolesPermission(
                     roles.role,
                     IF truthy THEN scope ELSE NoScope,
                     permission.action))]

\* The data branch putting the new variant at the front of the list.
from_weaviate_data_prepends(acc, permission) ==
    LET data == Get(permission, "data") IN
    IF data = NoneValue THEN acc
    ELSE IF "collection" \notin DOMAIN data THEN Raise(acc, "KeyError")
    ELSE [acc EXCEPT !.data_permissions =
            <<DataPermission(data.collection, permission.action)>> \o @]

\* The data branch warning of a permission that has no data sub-object.
from_weaviate_data_missing_warns(acc, permission) ==
    LET data == Get(permission, "data") IN
    IF data = NoneValue
        THEN [acc EXCEPT !.warned = unknown_permission_encountered(@, permission)]
    ELSE IF "collection" \notin DOMAIN data THEN Raise(acc, "KeyError")
    ELSE [acc EXCEPT !.data_permissions =
            Append(@, DataPermission(data.collection, permission.action))]

from_weaviate_data(acc, permission) ==
    LET data == Get(permission, "data") IN
    IF data = NoneValue THEN acc
    ELSE IF "collection" \notin DOMAIN data THEN Raise(acc, "KeyError")
    ELSE [acc EXCEPT !.data_permissions =
            Append(@, DataPermission(data.collection, permission.action))]

from_weaviate_backups(acc, permission) ==
    LET backups == Get(permission, "backups") IN
    IF backups = NoneValue THEN acc
    ELSE IF "collection" \notin DOMAIN backups THEN Raise(acc, "KeyError")
    ELSE [acc EXCEPT !.backups_permissions =
            Append(@, BackupsPermission(backups.collection, permission.action))]

\* The nodes branch without the "*" default: an absent collection is stored
\* as the empty string.
from_weaviate_nodes_no_default(acc, permission) ==
    LET nodes == Get(permission, "nodes") IN
    IF nodes = NoneValue THEN acc
    ELSE IF "verbosity" \notin DOMAIN nodes THEN Raise(acc, "KeyError")
    ELSE [acc EXCEPT !.nodes_permissions =
            Append(@, NodesPermission(
                IF "collection" \in DOMAIN nodes THEN nodes.collection ELSE <<>>,
                nodes.verbosity,
                permission.action))]

from_weaviate_nodes(acc, permission) ==
    LET nodes == Get(permission, "nodes") IN
    IF nodes = NoneValue THEN acc
    ELSE IF "verbosity" \notin DOMAIN nodes THEN Raise(acc, "KeyError")
    ELSE [acc EXCEPT !.nodes_permissions =
            Append(@, NodesPermission(
                IF "collection" \in DOMAIN nodes THEN nodes.collection ELSE Star,
                nodes.verbosity,
                permission.action))]

\* The else branch treating an action of no category as an error.
from_weaviate_unknown_raises(acc, permission) == Raise(acc, "ValueError")

from_weaviate_unknown(acc, permission) ==
    [acc EXCEPT !.warned = unknown_permission_encountered(@, permission)]

\* One iteration of the loop: the if/elif chain over the action enums.
from_weaviate_permission(acc, permission) ==
    IF In(permission.action, ClusterAction_values)
        THEN from_weaviate_cluster(acc, permission)
    ELSE IF In(permission.action, UsersAction_values)
        THEN from_weaviate_users(acc, permission)
    ELSE IF In(permission.action, CollectionsAction_values)
        THEN from_weaviate_collections(acc, permission)
    ELSE IF In(permission.action, TenantsAction_values)
        THEN from_weaviate_tenants(acc, permission)
    ELSE IF In(permission.action, RolesAction_values)
        THEN from_weaviate_roles(acc, permission)
    ELSE IF In(permission.action, DataAction_values)
        THEN from_weaviate_data(acc, permission)
    ELSE IF In(permission.action, BackupsAction_values)
        THEN from_weaviate_backups(acc, permission)
    ELSE IF In(permission.action, NodesAction_values)
        THEN from_weaviate_nodes(acc, permission)
    ELSE from_weaviate_unknown(acc, permission)

\* The for loop over role["permissions"]; an exception leaves the loop.
RECURSIVE from_weaviate_loop(_, _)
from_weaviate_loop(acc, permissions) ==
    IF permissions = <<>> \/ acc.raised # NoError THEN acc
    ELSE from_weaviate_loop(from_weaviate_permission(acc, Head(permissions)),
                            Tail(permissions))

\* Role._from_weaviate_role: the Role returned (None when the call raised),
\* the exception raised and the warnings issued.
Role_from_weaviate_role(role) ==
    LET acc == from_weaviate_loop(EmptyLists, role.permissions) IN
    [raised |-> acc.raised,
     warned |-> acc.warned,
     role |-> IF acc.raised # NoError THEN NoneValue
              ELSE Role(role.name, acc)]

\* -------------------------------------------------------------- factories

\* collection or "*": the empty string is falsy.
or_star(collection) == IF collection = <<>> THEN Star ELSE collection

\* role or "*"
role_or_star(role) == IF role = "" THEN "*" ELSE role

DataFactory_create(collection) == DataPermission(collection, DataAction.CREATE)

\* _DataFactory.read handing out an action of CollectionsAction.
DataFactory_read_collections_action(collection) ==
    DataPermission(collection, CollectionsAction.READ)

DataFactory_read(collection) == DataPermission(collection, DataAction.READ)

DataFactory_update(collection) == DataPermission(collection, DataAction.UPDATE)

DataFactory_delete(collection) == DataPermission(collection, DataAction.DELETE)

CollectionsFactory_create(collection) ==
    CollectionsPermission(or_star(collection), "*", CollectionsAction.CREATE)

CollectionsFactory_read(collection) ==
    CollectionsPermission(or_star(collection), "*", CollectionsAction.READ)

CollectionsFactory_update(collection) ==
    CollectionsPermission(or_star(collection), "*", CollectionsAction.UPDATE)

CollectionsFactory_delete(collection) ==
    CollectionsPermission(or_star(collection), "*", CollectionsAction.DELETE)

TenantsFactory_create(collection) ==
    TenantsPermission(or_star(collection), TenantsAction.CREATE)

TenantsFactory_read(collection) ==
    TenantsPermission(or_star(collection), TenantsAction.READ)

TenantsFactory_update(collection) ==
    TenantsPermission(or_star(collection), TenantsAction.UPDATE)

TenantsFactory_delete(collection) ==
    TenantsPermission(or_star(collection), TenantsAction.DELETE)

RolesFactory_manage(role, scope) ==
    RolesPermission(role_or_star(role), scope, RolesAction.MANAGE)

RolesFactory_read(role) ==
    RolesPermission(role_or_star(role), NoScope, RolesAction.READ)

UsersFactory_assign_and_revoke(user) ==
    UsersPermission(UsersAction.ASSIGN_AND_REVOKE, user)

ClusterFactory_read == ClusterPermission(ClusterAction.READ)

NodesFactory_read(collection, verbosity) ==
    NodesPermission(or_star(collection), verbosity, NodesAction.READ)

BackupsFactory_manage(collection) ==
    BackupsPermission(or_star(collection), BackupsAction.MANAGE)

\* ---------------------------------------------------------------- builders

\* A scoping argument is [str |-> s] for a single string, [seq |-> q] for a
\* sequence of strings, and Omitted when the caller does not pass the required
\* keyword argument (Python then raises TypeError at the call).
Omitted == [omitted |-> TRUE]

\* isinstance(x, str)
IsStr(scoping) == "str" \in DOMAIN scoping

\* if isinstance(x, str): x = [x]
as_list(scoping) == IF IsStr(scoping) THEN <<scoping.str>> ELSE scoping.seq

\* What a builder hands back: the list returned, or the exception raised.
Returned(permissions) == [raised |-> NoError, ret |-> [list |-> permissions]]

Raised(error) == [raised |-> error, ret |-> NoneValue]

\* The list left by "for x in xs: <appends>", given each iteration's appends.
RECURSIVE Extended(_)
Extended(appends) ==
    IF appends = <<>> THEN <<>> ELSE Head(appends) \o Extended(Tail(appends))

\* if flag: permissions.append(permission)
AppendIf(flag, permission) == IF flag THEN <<permission>> ELSE <<>>

Permissions_data(collection, create, read, update, delete) ==
    IF collection = Omitted THEN Raised("TypeError")
    ELSE LET cs == as_list(collection) IN
         Returned(Extended([i \in 1..Len(cs) |->
             AppendIf(create, DataFactory_create(cs[i]))
                 \o AppendIf(read, DataFactory_read(cs[i]))
                 \o AppendIf(update, DataFactory_update(cs[i]))
                 \o AppendIf(delete, DataFactory_delete(cs[i]))]))

Permissions_collections(collection, create_collection, read_config, update_config, delete_collection) ==
    IF collection = Omitted THEN Raised("TypeError")
    ELSE LET cs == as_list(collection) IN
         Returned(Extended([i \in 1..Len(cs) |->
             AppendIf(create_collection, CollectionsFactory_create(cs[i]))
                 \o AppendIf(read_config, CollectionsFactory_read(cs[i]))
                 \o AppendIf(update_config, CollectionsFactory_update(cs[i]))
                 \o AppendIf(delete_collection, CollectionsFactory_delete(cs[i]))]))

Permissions_tenants(collection, create, read, update, delete) ==
    IF collection = Omitted THEN Raised("TypeError")
    ELSE LET cs == as_list(collection) IN
         Returned(Extended([i \in 1..Len(cs) |->
             AppendIf(create, TenantsFactory_create(cs[i]))
                 \o AppendIf(read, TenantsFactory_read(cs[i]))
                 \o AppendIf(update, TenantsFactory_update(cs[i]))
                 \o AppendIf(delete, TenantsFactory_delete(cs[i]))]))

\* manage: Optional[Union[RoleScope, bool]] = None.  The argument is "None",
\* "True", "False" (the two bools) or a RoleScope value.
IsBool(manage) == manage \in {"True", "False"}

Permissions_roles(role, read, manage) ==
    IF role = Omitted THEN Raised("TypeError")
    ELSE LET rs == as_list(role) IN
         Returned(Extended([i \in 1..Len(rs) |->
             AppendIf(read, RolesFactory_read(rs[i]))
                 \o (IF manage # "None"
                     THEN IF IsBool(manage)
                          THEN <<RolesFactory_manage(rs[i], NoScope)>>
                          ELSE <<RolesFactory_manage(rs[i], manage)>>
                     ELSE <<>>)]))

Permissions_users(user, assign_and_revoke) ==
    IF user = Omitted THEN Raised("TypeError")
    ELSE LET us == as_list(user) IN
         Returned(Extended([i \in 1..Len(us) |->
             AppendIf(assign_and_revoke, UsersFactory_assign_and_revoke(us[i]))]))

Permissions_backup(collection, manage) ==
    IF collection = Omitted THEN Raised("TypeError")
    ELSE LET cs == as_list(collection) IN
         Returned(Extended([i \in 1..Len(cs) |->
             AppendIf(manage, BackupsFactory_manage(cs[i]))]))

Permissions_nodes(collection, verbosity, read) ==
    IF collection = Omitted THEN Raised("TypeError")
    ELSE LET cs == as_list(collection) IN
         Returned(Extended([i \in 1..Len(cs) |->
             AppendIf(read, NodesFactory_read(cs[i], verbosity))]))

Permissions_cluster(read) == Returned(AppendIf(read, ClusterFactory_read))

\* ------------------------------------------------------------------ inputs

\* All sequences over S of length at most n.
SeqsUpTo(S, n) == UNION {[1..k -> S] : k \in 0..n}

\* Collection names given to the builders: the empty string, a lower-case and
\* an upper-case name.
BuilderCollections == {<<>>, <<"a">>, <<"B">>}

BuilderRoles == {"", "admin", "viewer"}

BuilderUsers == {"", "alice", "bob"}

\* The scoping arguments a caller can pass over a set of names.
ScopingArgs(names) ==
    {Omitted}
        \cup {[str |-> n] : n \in names}
        \cup {[seq |-> q] : q \in SeqsUpTo(names, MaxScoping)}

VerbosityValues == {"minimal", "verbose"}

ManageValues == {"None", "True", "False", RoleScope.MATCH, RoleScope.ALL}

\* Collection names of permission variants and of wire records.
CollectionNames == {Star, <<"F", "o", "o">>, <<"f", "o", "o">>, <<"b">>}

TenantNames == {"*", "tenantA"}

RoleNames == {"*", "admin"}

UserNames == {"alice"}

ScopeValues == {NoScope, RoleScope.MATCH, RoleScope.ALL}

\* Every well-formed permission variant over the names above.
Variants ==
    {CollectionsPermission(c, t, a) :
        c \in CollectionNames, t \in TenantNames, a \in Range(CollectionsAction_values)}
    \cup {TenantsPermission(c, a) :
        c \in CollectionNames, a \in Range(TenantsAction_values)}
    \cup {NodesPermission(c, v, a) :
        c \in CollectionNames, v \in VerbosityValues, a \in Range(NodesAction_values)}
    \cup {RolesPermission(r, sc, a) :
        r \in RoleNames, sc \in ScopeValues, a \in Range(RolesAction_values)}
    \cup {UsersPermission(a, u) :
        a \in Range(UsersAction_values), u \in UserNames}
    \cup {BackupsPermission(c, a) :
        c \in CollectionNames, a \in Range(BackupsAction_values)}
    \cup {ClusterPermission(a) : a \in Range(ClusterAction_values)}
    \cup {DataPermission(c, a) :
        c \in CollectionNames, a \in Range(DataAction_values)}

\* ------------------------------------------------------------- wire inputs

WireCollections == {Star, <<"F", "o", "o">>, <<"f", "o", "o">>}

\* A field the client does not know, as a newer server may send.
UnknownField == [extra |-> "x"]

\* The wire record with the given action and one sub-object under key.
WithSub(action, key, value) ==
    CASE key = "data" -> [action |-> action, data |-> value]
      [] key = "collections" -> [action |-> action, collections |-> value]
      [] key = "tenants" -> [action |-> action, tenants |-> value]
      [] key = "nodes" -> [action |-> action, nodes |-> value]
      [] key = "backups" -> [action |-> action, backups |-> value]
      [] key = "roles" -> [action |-> action, roles |-> value]
      [] key = "users" -> [action |-> action, users |-> value]

\* The sub-objects a server may send under a key: with every field, with an
\* optional or a required field missing, and with only an unknown field.
SubObjects(key) ==
    CASE key \in {"data", "backups"} ->
            {[collection |-> c] : c \in WireCollections} \cup {UnknownField}
      [] key \in {"collections", "tenants"} ->
            {[collection |-> c, tenant |-> t] : c \in WireCollections, t \in TenantNames}
            \cup {[collection |-> c] : c \in WireCollections}
            \cup {[tenant |-> t] : t \in TenantNames}
            \cup {UnknownField}
      [] key = "nodes" ->
            {[collection |-> c, verbosity |-> v] : c \in WireCollections, v \in VerbosityValues}
            \cup {[verbosity |-> v] : v \in VerbosityValues}
            \cup {[collection |-> c] : c \in WireCollections}
            \cup {UnknownField}
      [] key = "roles" ->
            {[role |-> r, scope |-> sc] :
                r \in RoleNames, sc \in {RoleScope.MATCH, RoleScope.ALL, "", "future"}}
            \cup {[role |-> r] : r \in RoleNames}
            \cup {[scope |-> RoleScope.MATCH], UnknownField}
      [] key = "users" ->
            {[users |-> u] : u \in UserNames} \cup {UnknownField}

\* Action strings of no category.
UnknownActions == {"read_aliases", "create_replicate"}

\* The wire records with an action of one category: its own sub-object (any
\* content, or null), no sub-object, or only the sub-object of another category.
WireOfCategory(actions, key, otherKey) ==
    {WithSub(a, key, v) : a \in Range(actions), v \in SubObjects(key) \cup {NoneValue}}
    \cup {[action |-> a] : a \in Range(actions)}
    \cup {WithSub(a, otherKey, v) : a \in Range(actions), v \in SubObjects(otherKey)}

WirePermissions ==
    WireOfCategory(CollectionsAction_values, "collections", "users")
    \cup WireOfCategory(TenantsAction_values, "tenants", "users")
    \cup WireOfCategory(DataAction_values, "data", "users")
    \cup WireOfCategory(RolesAction_values, "roles", "users")
    \cup WireOfCategory(UsersAction_values, "users", "data")
    \cup WireOfCategory(NodesAction_values, "nodes", "users")
    \cup WireOfCategory(BackupsAction_values, "backups", "users")
    \cup {[action |-> a] : a \in Range(ClusterAction_values) \cup UnknownActions}
    \cup {WithSub(a, "data", v) :
            a \in Range(ClusterAction_values) \cup UnknownActions,
            v \in SubObjects("data")}

\* The records that make up the longer permission lists: one the parser
\* accepts per category, two unknown ones, one without its sub-object, and two
\* the parser cannot read.
CorePermissions ==
    {[action |-> ClusterAction.READ],
     [action |-> UsersAction.ASSIGN_AND_REVOKE, users |-> [users |-> "alice"]],
     [action |-> CollectionsAction.READ,
      collections |-> [collection |-> <<"F", "o", "o">>, tenant |-> "tenantA"]],
     [action |-> TenantsAction.CREATE,
      tenants |-> [collection |-> <<"f", "o", "o">>, tenant |-> "tenantA"]],
     [action |-> RolesAction.MANAGE, roles |-> [role |-> "admin", scope |-> RoleScope.MATCH]],
     [action |-> DataAction.READ, data |-> [collection |-> <<"f", "o", "o">>]],
     [action |-> DataAction.MANAGE, data |-> [collection |-> Star]],
     [action |-> BackupsAction.MANAGE, backups |-> [collection |-> Star]],
     [action |-> NodesAction.READ, nodes |-> [verbosity |-> "verbose"]],
     [action |-> "read_aliases", data |-> [collection |-> Star]],
     [action |-> "create_replicate"],
     [action |-> DataAction.DELETE],
     [action |-> DataAction.UPDATE, data |-> UnknownField],
     [action |-> RolesAction.READ, roles |-> [role |-> "admin", scope |-> "future"]]}

WireRoleNames == {"admin", "viewer"}

\* The wire roles handed to the parser: every single record, and every list of
\* core records up to MaxPerms long.
WireRoles ==
    {[name |-> n, permissions |-> ps] :
        n \in WireRoleNames,
        ps \in SeqsUpTo(CorePermissions, MaxPerms) \cup {<<p>> : p \in WirePermissions}}

\* ---------------------------------------------------------- composed roles

\* Per category, the variants a client puts in a Role it composes directly.
SampleLists ==
    [cluster_permissions |-> [i \in 1..MaxBucket |-> ClusterPermission(ClusterAction.READ)],
     collections_permissions |-> [i \in 1..MaxBucket |->
        CollectionsPermission(Star, "*", CollectionsAction_values[i])],
     data_permissions |-> [i \in 1..MaxBucket |->
        DataPermission(Star, DataAction_values[i])],
     roles_permissions |-> [i \in 1..MaxBucket |->
        RolesPermission("admin", NoScope, RolesAction_values[1 + (i % 2)])],
     users_permissions |-> [i \in 1..MaxBucket |->
        UsersPermission(UsersAction.ASSIGN_AND_REVOKE, IF i % 2 = 1 THEN "alice" ELSE "bob")],
     backups_permissions |-> [i \in 1..MaxBucket |->
        BackupsPermission(IF i % 2 = 1 THEN Star ELSE <<"b">>, BackupsAction.MANAGE)],
     nodes_permissions |-> [i \in 1..MaxBucket |->
        NodesPermission(Star, IF i % 2 = 1 THEN "minimal" ELSE "verbose", NodesAction.READ)],
     tenants_permissions |-> [i \in 1..MaxBucket |->
        TenantsPermission(Star, TenantsAction_values[i])]]

ListNames == DOMAIN SampleLists

\* The Roles composed directly: each list a prefix, at most MaxBucket long, of
\* the category's sample list.
ComposedRoles ==
    {Role("composed", [k \in ListNames |-> SubSeq(SampleLists[k], 1, n[k])]) :
        n \in [ListNames -> 0..MaxBucket]}

\* ----------------------------------------------------------------- actions

\* The client makes one call at a time.  op is the call in progress ("none"
\* between calls), args its arguments by parameter name, ret its return value,
\* raised the exception it raised, warnings the warnings the warning sink
\* received during it.  ret is tagged with the Python type of the value:
\* [list |-> l], [dict |-> d], [role |-> r], or NoneValue when the call raised.

\* No call of the RBAC module is in progress.
NoCall ==
    /\ op = "none"
    /\ args = NoneValue
    /\ ret = NoneValue
    /\ raised = NoError
    /\ warnings = <<>>

\* No TransformationAgent exists.
NoAgent ==
    /\ pc = "none"
    /\ operations = <<>>
    /\ index = 0
    /\ responses = <<>>
    /\ requests = <<>>
    /\ replies = <<>>
    /\ result = NoneValue
    /\ exception = NoError

Init == NoCall /\ NoAgent

CallData ==
    /\ op = "none"
    /\ \E collection \in ScopingArgs(BuilderCollections),
          create \in BOOLEAN, read \in BOOLEAN, update \in BOOLEAN, delete \in BOOLEAN :
           LET outcome == Permissions_data(collection, create, read, update, delete) IN
           /\ op' = "Permissions.data"
           /\ args' = [collection |-> collection, create |-> create, read |-> read,
                       update |-> update, delete |-> delete]
           /\ ret' = outcome.ret
           /\ raised' = outcome.raised
           /\ warnings' = <<>>
           /\ UNCHANGED agentVars

CallCollections ==
    /\ op = "none"
    /\ \E collection \in ScopingArgs(BuilderCollections),
          create_collection \in BOOLEAN, read_config \in BOOLEAN,
          update_config \in BOOLEAN, delete_collection \in BOOLEAN :
           LET outcome == Permissions_collections(collection, create_collection,
                              read_config, update_config, delete_collection) IN
           /\ op' = "Permissions.collections"
           /\ args' = [collection |-> collection, create_collection |-> create_collection,
                       read_config |-> read_config, update_config |-> update_config,
                       delete_collection |-> delete_collection]
           /\ ret' = outcome.ret
           /\ raised' = outcome.raised
           /\ warnings' = <<>>
           /\ UNCHANGED agentVars

CallTenants ==
    /\ op = "none"
    /\ \E collection \in ScopingArgs(BuilderCollections),
          create \in BOOLEAN, read \in BOOLEAN, update \in BOOLEAN, delete \in BOOLEAN :
           LET outcome == Permissions_tenants(collection, create, read, update, delete) IN
           /\ op' = "Permissions.tenants"
           /\ args' = [collection |-> collection, create |-> create, read |-> read,
                       update |-> update, delete |-> delete]
           /\ ret' = outcome.ret
           /\ raised' = outcome.raised
           /\ warnings' = <<>>
           /\ UNCHANGED agentVars

CallRoles ==
    /\ op = "none"
    /\ \E role \in ScopingArgs(BuilderRoles), read \in BOOLEAN, manage \in ManageValues :
           LET outcome == Permissions_roles(role, read, manage) IN
           /\ op' = "Permissions.roles"
           /\ args' = [role |-> role, read |-> read, manage |-> manage]
           /\ ret' = outcome.ret
           /\ raised' = outcome.raised
           /\ warnings' = <<>>
           /\ UNCHANGED agentVars

CallUsers ==
    /\ op = "none"
    /\ \E user \in ScopingArgs(BuilderUsers), assign_and_revoke \in BOOLEAN :
           LET outcome == Permissions_users(user, assign_and_revoke) IN
           /\ op' = "Permissions.users"
           /\ args' = [user |-> user, assign_and_revoke |-> assign_and_revoke]
           /\ ret' = outcome.ret
           /\ raised' = outcome.raised
           /\ warnings' = <<>>
           /\ UNCHANGED agentVars

CallBackup ==
    /\ op = "none"
    /\ \E collection \in ScopingArgs(BuilderCollections), manage \in BOOLEAN :
           LET outcome == Permissions_backup(collection, manage) IN
           /\ op' = "Permissions.backup"
           /\ args' = [collection |-> collection, manage |-> manage]
           /\ ret' = outcome.ret
           /\ raised' = outcome.raised
           /\ warnings' = <<>>
           /\ UNCHANGED agentVars

CallNodes ==
    /\ op = "none"
    /\ \E collection \in ScopingArgs(BuilderCollections),
          verbosity \in VerbosityValues, read \in BOOLEAN :
           LET outcome == Permissions_nodes(collection, verbosity, read) IN
           /\ op' = "Permissions.nodes"
           /\ args' = [collection |-> collection, verbosity |-> verbosity, read |-> read]
           /\ ret' = outcome.ret
           /\ raised' = outcome.raised
           /\ warnings' = <<>>
           /\ UNCHANGED agentVars

CallCluster ==
    /\ op = "none"
    /\ \E read \in BOOLEAN :
           LET outcome == Permissions_cluster(read) IN
           /\ op' = "Permissions.cluster"
           /\ args' = [read |-> read]
           /\ ret' = outcome.ret
           /\ raised' = outcome.raised
           /\ warnings' = <<>>
           /\ UNCHANGED agentVars

\* permission._to_weaviate() on a variant.
CallToWeaviate ==
    /\ op = "none"
    /\ \E self \in Variants :
           /\ op' = "_to_weaviate"
           /\ args' = [self |-> self]
           /\ ret' = [dict |-> to_weaviate(self)]
           /\ raised' = NoError
           /\ warnings' = <<>>
           /\ UNCHANGED agentVars

\* Role._from_weaviate_role(role) on a wire role.
CallFromWeaviateRole ==
    /\ op = "none"
    /\ \E role \in WireRoles :
           LET outcome == Role_from_weaviate_role(role) IN
           /\ op' = "Role._from_weaviate_role"
           /\ args' = [role |-> role]
           /\ ret' = IF outcome.raised = NoError THEN [role |-> outcome.role] ELSE NoneValue
           /\ raised' = outcome.raised
           /\ warnings' = outcome.warned
           /\ UNCHANGED agentVars

\* role.permissions on a Role the client composed.
CallRolePermissions ==
    /\ op = "none"
    /\ \E self \in ComposedRoles :
           /\ op' = "Role.permissions"
           /\ args' = [self |-> self]
           /\ ret' = [list |-> Role_permissions(self)]
           /\ raised' = NoError
           /\ warnings' = <<>>
           /\ UNCHANGED agentVars

\* The caller takes the result (or the exception); the next call can start.
Return ==
    /\ op # "none"
    /\ op' = "none"
    /\ args' = NoneValue
    /\ ret' = NoneValue
    /\ raised' = NoError
    /\ warnings' = <<>>
    /\ UNCHANGED agentVars

Next ==
    \/ CallData
    \/ CallCollections
    \/ CallTenants
    \/ CallRoles
    \/ CallUsers
    \/ CallBackup
    \/ CallNodes
    \/ CallCluster
    \/ CallToWeaviate
    \/ CallFromWeaviateRole
    \/ CallRolePermissions
    \/ Return

Spec == Init /\ [][Next]_vars

\* ==================================================== TransformationAgent

\* The HTTP status from which a response counts as failed.
ErrorStatus == 400

\* OperationType as update_all uses it: APPEND, or anything else.
OperationType == [APPEND |-> "append", UPDATE |-> "update"]

\* The property names operations are configured for.
PropertyNames == {"p", "q"}

\* An operation: its class (OperationStep, or its subclass
\* AppendPropertyOperation), its operation_type and its property_name.
OperationSteps ==
    {[class |-> c, operation_type |-> t, property_name |-> n] :
        c \in {"OperationStep", "AppendPropertyOperation"},
        t \in {OperationType.APPEND, OperationType.UPDATE},
        n \in PropertyNames}

\* A DependentOperationStep wraps an operation.
DependentOperationStep(operation) ==
    [class |-> "DependentOperationStep", operation |-> operation]

\* What a TransformationAgent can be configured with.
ConfiguredOperations ==
    OperationSteps \cup {DependentOperationStep(o) : o \in OperationSteps}

OperationLists == SeqsUpTo(ConfiguredOperations, MaxOps)

\* Statuses and workflow ids the agents service answers with.
StatusCodes == {399, 400, 500}

WorkflowIds == {"w1", "w2"}

\* isinstance(operation, DependentOperationStep): op = operation.operation,
\* else op = operation.
Unwrapped(operation) ==
    IF operation.class = "DependentOperationStep" THEN operation.operation ELSE operation

\* The operation the loop of update_all is at.
CurrentOperation == Unwrapped(operations[index])

\* The request _execute_append_operation posts.
AppendRequest(operation) ==
    [path |-> "/transformation/create", on_properties |-> operation.property_name]

\* The request _execute_update_operation posts.
UpdateRequest(operation) ==
    [path |-> "/transformation/update", on_properties |-> operation.property_name]

TransformationResponse(operation_name, workflow_id) ==
    [operation_name |-> operation_name, workflow_id |-> workflow_id]

\* A TransformationAgent was constructed with a list of operations; nothing
\* has been sent.
AgentInit ==
    /\ NoCall
    /\ pc = "configured"
    /\ operations \in OperationLists
    /\ index = 0
    /\ responses = <<>>
    /\ requests = <<>>
    /\ replies = <<>>
    /\ result = NoneValue
    /\ exception = NoError

\* update_all is called: responses = [], the loop starts at the first
\* operation.
update_all ==
    /\ pc = "configured"
    /\ pc' = "loop"
    /\ index' = 1
    /\ responses' = <<>>
    /\ UNCHANGED <<operations, requests, replies, result, exception>>
    /\ UNCHANGED rbacVars

\* _execute_operation: an append-type operation that is not an
\* AppendPropertyOperation raises ValueError, which leaves update_all.
execute_operation_raises ==
    /\ pc = "loop"
    /\ index <= Len(operations)
    /\ CurrentOperation.operation_type = OperationType.APPEND
    /\ CurrentOperation.class # "AppendPropertyOperation"
    /\ pc' = "raised"
    /\ exception' = "ValueError"
    /\ UNCHANGED <<operations, index, responses, requests, replies, result>>
    /\ UNCHANGED rbacVars

\* _execute_append_operation posts its request and awaits the response.
execute_append_operation ==
    /\ pc = "loop"
    /\ index <= Len(operations)
    /\ CurrentOperation.operation_type = OperationType.APPEND
    /\ CurrentOperation.class = "AppendPropertyOperation"
    /\ requests' = Append(requests, AppendRequest(CurrentOperation))
    /\ pc' = "awaiting"
    /\ UNCHANGED <<operations, index, responses, replies, result, exception>>
    /\ UNCHANGED rbacVars

\* _execute_update_operation posts its request and awaits the response.
execute_update_operation ==
    /\ pc = "loop"
    /\ index <= Len(operations)
    /\ CurrentOperation.operation_type # OperationType.APPEND
    /\ requests' = Append(requests, UpdateRequest(CurrentOperation))
    /\ pc' = "awaiting"
    /\ UNCHANGED <<operations, index, responses, replies, result, exception>>
    /\ UNCHANGED rbacVars

\* The post itself fails (connection error, timeout): httpx raises and the
\* exception leaves update_all.
post_raises ==
    /\ pc = "awaiting"
    /\ pc' = "raised"
    /\ exception' = "httpx.HTTPError"
    /\ UNCHANGED <<operations, index, responses, requests, replies, result>>
    /\ UNCHANGED rbacVars

\* The response with status_code >= 400 that swallows the failure: the loop
\* goes on with the next operation.
response_failed_ignored ==
    /\ pc = "awaiting"
    /\ \E status \in StatusCodes :
          /\ status >= ErrorStatus
          /\ replies' = Append(replies, [status_code |-> status])
    /\ pc' = "loop"
    /\ index' = index + 1
    /\ UNCHANGED <<operations, responses, requests, result, exception>>
    /\ UNCHANGED rbacVars

\* The response arrives with status_code >= 400: Exception("Operation
\* failed") leaves update_all.
response_failed ==
    /\ pc = "awaiting"
    /\ \E status \in StatusCodes :
          /\ status >= ErrorStatus
          /\ replies' = Append(replies, [status_code |-> status])
    /\ pc' = "raised"
    /\ exception' = "Exception"
    /\ UNCHANGED <<operations, index, responses, requests, result>>
    /\ UNCHANGED rbacVars

\* The response arrives with a status below 400 but its body has no
\* workflow_id: response_data["workflow_id"] raises KeyError.
response_without_workflow_id ==
    /\ pc = "awaiting"
    /\ \E status \in StatusCodes :
          /\ status < ErrorStatus
          /\ replies' = Append(replies, [status_code |-> status])
    /\ pc' = "raised"
    /\ exception' = "KeyError"
    /\ UNCHANGED <<operations, index, responses, requests, result>>
    /\ UNCHANGED rbacVars

\* The response arrives with a status below 400 and a workflow_id: the
\* TransformationResponse is appended and the loop goes to the next operation.
response_ok ==
    /\ pc = "awaiting"
    /\ \E status \in StatusCodes, workflow_id \in WorkflowIds :
          /\ status < ErrorStatus
          /\ replies' = Append(replies, [status_code |-> status, workflow_id |-> workflow_id])
          /\ responses' = Append(responses,
                TransformationResponse(CurrentOperation.property_name, workflow_id))
    /\ index' = index + 1
    /\ pc' = "loop"
    /\ UNCHANGED <<operations, requests, result, exception>>
    /\ UNCHANGED rbacVars

\* The loop is over: return responses.
update_all_returns ==
    /\ pc = "loop"
    /\ index > Len(operations)
    /\ result' = [list |-> responses]
    /\ pc' = "returned"
    /\ UNCHANGED <<operations, index, responses, requests, replies, exception>>
    /\ UNCHANGED rbacVars

AgentNext ==
    \/ update_all
    \/ execute_operation_raises
    \/ execute_append_operation
    \/ execute_update_operation
    \/ post_raises
    \/ response_failed
    \/ response_without_workflow_id
    \/ response_ok
    \/ update_all_returns

AgentSpec == AgentInit /\ [][AgentNext]_vars

\* ============================================================== properties

\* The eight categories, in the order the parser tests them.
ParseOrder ==
    <<"cluster", "users", "collections", "tenants", "roles", "data", "backups", "nodes">>

Categories == Range(ParseOrder)

\* The action strings of a category.
ValuesOf(category) ==
    CASE category = "cluster" -> Range(ClusterAction_values)
      [] category = "users" -> Range(UsersAction_values)
      [] category = "collections" -> Range(CollectionsAction_values)
      [] category = "tenants" -> Range(TenantsAction_values)
      [] category = "roles" -> Range(RolesAction_values)
      [] category = "data" -> Range(DataAction_values)
      [] category = "backups" -> Range(BackupsAction_values)
      [] category = "nodes" -> Range(NodesAction_values)

CategoriesOf(action) == {c \in Categories : action \in ValuesOf(c)}

Recognized(permission) == CategoriesOf(permission.action) # {}

\* The Role list that holds the variants of a category.
ListOf(role, category) ==
    CASE category = "cluster" -> role.cluster_permissions
      [] category = "users" -> role.users_permissions
      [] category = "collections" -> role.collections_permissions
      [] category = "tenants" -> role.tenants_permissions
      [] category = "roles" -> role.roles_permissions
      [] category = "data" -> role.data_permissions
      [] category = "backups" -> role.backups_permissions
      [] category = "nodes" -> role.nodes_permissions

\* The field a sub-object of the category must carry.
RequiredField(category) ==
    CASE category \in {"collections", "tenants", "data", "backups"} -> "collection"
      [] category = "roles" -> "role"
      [] category = "users" -> "users"
      [] category = "nodes" -> "verbosity"

\* A recognized wire permission as the wire format describes it: a Cluster
\* action, or the sub-object of the action's category present with its
\* required field, and a scope, when given, that is a RoleScope value.
WellFormed(permission) ==
    \E c \in CategoriesOf(permission.action) :
        \/ c = "cluster"
        \/ /\ c \in DOMAIN permission
           /\ permission[c] # NoneValue
           /\ RequiredField(c) \in DOMAIN permission[c]
           /\ (c = "roles" /\ "scope" \in DOMAIN permission[c])
                => permission[c].scope \in Range(RoleScope_values)

ActionsOf(list) == [i \in 1..Len(list) |-> list[i].action]

IsCategory(category, permission) == permission.action \in ValuesOf(category)

\* A call of Role._from_weaviate_role is in progress; its wire permissions; it
\* returned a Role.
Parsing == op = "Role._from_weaviate_role"

WireIn == args.role.permissions

Parsed == Parsing /\ raised = NoError

\* A call of _to_weaviate is in progress.
Projecting == op = "_to_weaviate"

\* The outcome of parsing the wire role that holds the one record `wire`.
ParsedBack(wire) ==
    Role_from_weaviate_role([name |-> "roundtrip", permissions |-> <<wire>>])

\* ---------------------------------------------------------------------- C1
\* C1 as stated: for every variant, parsing the wire record that _to_weaviate
\* produced yields exactly one variant, equal to the original in every field.
C1_RoundTripExact ==
    Projecting =>
        /\ ParsedBack(ret.dict).raised = NoError
        /\ Role_permissions(ParsedBack(ret.dict).role) = <<args.self>>

LowerCaseFirst(name) == Head(name) \in DOMAIN UpperOf

\* C1 amended: for every variant, parsing the wire record that _to_weaviate
\* produced raises nothing, warns of nothing and yields exactly one variant,
\* in the list of the original's category, whose fields equal the original's
\* except collection, which is the original's with its first letter
\* capitalized; it is the original itself exactly when the variant has no
\* collection or its collection does not start with a lower-case letter.
C1_RoundTripUpToCapitalization ==
    Projecting =>
        LET self == args.self
            back == ParsedBack(ret.dict)
            got == Role_permissions(back.role)
        IN
        /\ back.raised = NoError
        /\ back.warned = <<>>
        /\ Len(got) = 1
        /\ ListOf(back.role, self.category) = got
        /\ DOMAIN got[1] = DOMAIN self
        /\ \A f \in DOMAIN self \ {"collection"} : got[1][f] = self[f]
        /\ "collection" \in DOMAIN self =>
              /\ Len(got[1].collection) = Len(self.collection)
              /\ Tail(got[1].collection) = Tail(self.collection)
              /\ Head(got[1].collection) =
                    IF LowerCaseFirst(self.collection)
                        THEN UpperOf[Head(self.collection)]
                        ELSE Head(self.collection)
        /\ (got[1] = self) <=>
              ("collection" \in DOMAIN self => ~LowerCaseFirst(self.collection))

\* A Collections variant with a lower-case collection and a specific tenant
\* was projected, and parsing the record does not give it back.
C1_Witness ==
    /\ Projecting
    /\ args.self = CollectionsPermission(<<"f", "o", "o">>, "tenantA", CollectionsAction.MANAGE)
    /\ Role_permissions(ParsedBack(ret.dict).role) =
          <<CollectionsPermission(<<"F", "o", "o">>, "tenantA", CollectionsAction.MANAGE)>>

\* ---------------------------------------------------------------------- C2
\* C2: when every recognized permission of the wire role is well formed, the
\* parser raises nothing and returns a Role; each category's list holds, in
\* order, exactly the actions of the recognized permissions of that category,
\* so the Role holds as many variants as there are recognized permissions;
\* and the warnings are exactly the unrecognized records, one each, in order.
C2_UnknownActionTolerance ==
    (Parsing /\ \A i \in 1..Len(WireIn) : Recognized(WireIn[i]) => WellFormed(WireIn[i]))
    =>
        /\ raised = NoError
        /\ "role" \in DOMAIN ret
        /\ \A c \in Categories :
              ActionsOf(ListOf(ret.role, c)) =
                  ActionsOf(SelectSeq(WireIn, LAMBDA p : IsCategory(c, p)))
        /\ Len(Role_permissions(ret.role)) = Len(SelectSeq(WireIn, Recognized))
        /\ warnings = SelectSeq(WireIn, LAMBDA p : ~Recognized(p))

\* An unrecognized record sits between two recognized ones; both are parsed
\* and one warning carries the unrecognized record.
C2_Witness ==
    /\ Parsed
    /\ Len(WireIn) = 3
    /\ Recognized(WireIn[1]) /\ WellFormed(WireIn[1])
    /\ ~Recognized(WireIn[2])
    /\ Recognized(WireIn[3]) /\ WellFormed(WireIn[3])
    /\ Len(Role_permissions(ret.role)) = 2
    /\ warnings = <<WireIn[2]>>

\* ---------------------------------------------------------------------- C3
\* C3 as stated: whatever the sub-objects of the wire permissions hold or
\* lack, Role._from_weaviate_role raises no error and returns a Role.
C3_NeverFails ==
    Parsing => (raised = NoError /\ "role" \in DOMAIN ret)

\* ---------------------------------------------------------------------- C4
\* The collection the wire gives for a permission of a category: the
\* sub-object's, or the parser's default when a Nodes sub-object has none.
WireCollection(permission, category) ==
    IF "collection" \in DOMAIN permission[category]
        THEN permission[category].collection ELSE Star

\* The wire permissions of a category that carry its sub-object.
WithSubObject(permissions, category) ==
    SelectSeq(permissions, LAMBDA p :
        /\ IsCategory(category, p)
        /\ category \in DOMAIN p
        /\ p[category] # NoneValue)

\* The wire permissions the parser turns into variants of a category: every
\* Cluster one, and of the others those that carry the category's sub-object.
Kept(permissions, category) ==
    IF category = "cluster"
        THEN SelectSeq(permissions, LAMBDA p : IsCategory(category, p))
        ELSE WithSubObject(permissions, category)

\* C4: _to_weaviate emits a variant's collection with its first letter
\* capitalized and the rest unchanged ("foo" becomes "Foo", "*" stays "*"),
\* and the parser stores the collection of a wire sub-object verbatim, a
\* lower-case first letter included.
C4_CapitalizationOutboundOnly ==
    /\ (Projecting /\ "collection" \in DOMAIN args.self) =>
          LET given == args.self.collection
              emitted == ret.dict[args.self.category].collection
          IN
          /\ Len(emitted) = Len(given)
          /\ Tail(emitted) = Tail(given)
          /\ ~LowerCaseFirst(emitted)
          /\ Head(emitted) =
                IF LowerCaseFirst(given) THEN UpperOf[Head(given)] ELSE Head(given)
          /\ given = <<"f", "o", "o">> => emitted = <<"F", "o", "o">>
          /\ given = Star => emitted = Star
    /\ Parsed =>
          \A c \in {"data", "collections", "tenants", "backups", "nodes"} :
              LET wire == WithSubObject(WireIn, c)
                  list == ListOf(ret.role, c)
              IN
              [i \in 1..Len(list) |-> list[i].collection]
                  = [i \in 1..Len(wire) |-> WireCollection(wire[i], c)]

\* Data(collection="foo", action=READ) was projected to data.collection "Foo".
C4_Witness ==
    /\ Projecting
    /\ args.self = DataPermission(<<"f", "o", "o">>, DataAction.READ)
    /\ ret.dict.data.collection = <<"F", "o", "o">>

\* A wire Data permission with the lower-case collection "foo" was parsed and
\* the variant holds "foo".
C4_WitnessInbound ==
    /\ Parsed
    /\ WireIn = <<[action |-> DataAction.READ, data |-> [collection |-> <<"f", "o", "o">>]]>>
    /\ ret.role.data_permissions = <<DataPermission(<<"f", "o", "o">>, DataAction.READ)>>

\* ------------------------------------------------------- builder properties

ScopedBuilders ==
    {"Permissions.data", "Permissions.collections", "Permissions.tenants",
     "Permissions.roles", "Permissions.users", "Permissions.backup",
     "Permissions.nodes"}

\* The builders whose scoping value is a collection.
CollectionBuilders ==
    {"Permissions.data", "Permissions.collections", "Permissions.tenants",
     "Permissions.backup", "Permissions.nodes"}

\* The scoping argument of the builder call in progress.
Scoping ==
    CASE op = "Permissions.roles" -> args.role
      [] op = "Permissions.users" -> args.user
      [] OTHER -> args.collection

\* The scoping values of the call, a single string being the one-element list.
ScopingValues == IF "str" \in DOMAIN Scoping THEN <<Scoping.str>> ELSE Scoping.seq

\* The scoping field of a variant the call returned.
ScopeFieldOf(variant) ==
    CASE op = "Permissions.roles" -> variant.role
      [] op = "Permissions.users" -> variant.users
      [] OTHER -> variant.collection

\* An empty scoping value, which the factories may replace.
IsEmptyValue(value) ==
    IF op \in {"Permissions.roles", "Permissions.users"} THEN value = "" ELSE value = <<>>

\* The flags of the call in the order the builder declares them, each with the
\* action it grants and whether the caller set it true.  For roles, manage is
\* set true by True and by a RoleScope value, not by False or None.
Flags ==
    CASE op = "Permissions.data" ->
            <<[set |-> args.create, action |-> "create_data"],
              [set |-> args.read, action |-> "read_data"],
              [set |-> args.update, action |-> "update_data"],
              [set |-> args.delete, action |-> "delete_data"]>>
      [] op = "Permissions.collections" ->
            <<[set |-> args.create_collection, action |-> "create_collections"],
              [set |-> args.read_config, action |-> "read_collections"],
              [set |-> args.update_config, action |-> "update_collections"],
              [set |-> args.delete_collection, action |-> "delete_collections"]>>
      [] op = "Permissions.tenants" ->
            <<[set |-> args.create, action |-> "create_tenants"],
              [set |-> args.read, action |-> "read_tenants"],
              [set |-> args.update, action |-> "update_tenants"],
              [set |-> args.delete, action |-> "delete_tenants"]>>
      [] op = "Permissions.roles" ->
            <<[set |-> args.read, action |-> "read_roles"],
              [set |-> args.manage \in {"True", "match", "all"}, action |-> "manage_roles"]>>
      [] op = "Permissions.users" ->
            <<[set |-> args.assign_and_revoke, action |-> "assign_and_revoke_users"]>>
      [] op = "Permissions.backup" ->
            <<[set |-> args.manage, action |-> "manage_backups"]>>
      [] op = "Permissions.nodes" ->
            <<[set |-> args.read, action |-> "read_nodes"]>>
      [] op = "Permissions.cluster" ->
            <<[set |-> args.read, action |-> "read_cluster"]>>

\* The actions of the flags set true, in flag order.
SetActions == ActionsOf(SelectSeq(Flags, LAMBDA f : f.set))

\* The call in progress returned a list.
ReturnedList == raised = NoError /\ "list" \in DOMAIN ret

\* ---------------------------------------------------------------------- C5
\* C5 as stated: a scoped builder given n scoping values (a single string
\* counting as one) and k flags set true returns n*k variants, scoping values
\* as the outer loop and set flags as the inner loop.
C5_FanOut ==
    (op \in ScopedBuilders /\ Scoping # Omitted) =>
        LET n == Len(ScopingValues)
            k == Len(SetActions)
        IN
        /\ ReturnedList
        /\ Len(ret.list) = n * k
        /\ \A i \in 1..n, j \in 1..k :
              /\ ret.list[(i - 1) * k + j].action = SetActions[j]
              /\ ~IsEmptyValue(ScopingValues[i]) =>
                    ScopeFieldOf(ret.list[(i - 1) * k + j]) = ScopingValues[i]

\* ---------------------------------------------------------------------- C6
\* C6 as stated: a collection-scoped builder called without any scoping value
\* and with some flag set succeeds and returns one variant per set flag, each
\* with collection "*".
C6_BuilderDefaults ==
    (op \in CollectionBuilders /\ Scoping = Omitted /\ SetActions # <<>>) =>
        /\ ReturnedList
        /\ Len(ret.list) = Len(SetActions)
        /\ \A j \in 1..Len(SetActions) :
              ret.list[j].action = SetActions[j] /\ ret.list[j].collection = Star

\* ---------------------------------------------------------------------- C7
\* The manage_roles variants a Permissions.roles call returned.
ManageVariants == SelectSeq(ret.list, LAMBDA v : v.action = "manage_roles")

\* C7 as stated: Permissions.roles emits no manage variant for manage=None and
\* manage=False, one per role with scope unset for manage=True, and one per
\* role carrying the scope for manage=RoleScope.MATCH or RoleScope.ALL.
C7_RolesManage ==
    (op = "Permissions.roles" /\ Scoping # Omitted) =>
        /\ ReturnedList
        /\ args.manage \in {"None", "False"} => ManageVariants = <<>>
        /\ args.manage = "True" =>
              /\ Len(ManageVariants) = Len(ScopingValues)
              /\ \A i \in 1..Len(ManageVariants) : ManageVariants[i].scope = NoScope
        /\ args.manage \in {"match", "all"} =>
              /\ Len(ManageVariants) = Len(ScopingValues)
              /\ \A i \in 1..Len(ManageVariants) : ManageVariants[i].scope = args.manage

\* ---------------------------------------------------------------------- C8
\* C8 as stated: every builder, called with a scoping value (cluster has none)
\* and every action flag false or absent, raises nothing and returns the empty
\* list.
C8_EmptyFlags ==
    (/\ op \in ScopedBuilders \cup {"Permissions.cluster"}
     /\ op \in ScopedBuilders => Scoping # Omitted
     /\ SetActions = <<>>)
    => (ReturnedList /\ ret.list = <<>>)

\* ---------------------------------------------------------------------- C9
\* The categories in the order Role.permissions concatenates their lists.
FlattenOrder ==
    <<"cluster", "collections", "data", "roles", "users", "backups", "nodes", "tenants">>

\* The place of a category in FlattenOrder.
Rank(category) == CHOOSE i \in 1..Len(FlattenOrder) : FlattenOrder[i] = category

RECURSIVE SumOfLengths(_, _)
SumOfLengths(role, i) ==
    IF i = 0 THEN 0 ELSE Len(ListOf(role, FlattenOrder[i])) + SumOfLengths(role, i - 1)

\* flat is the concatenation of role's eight lists in FlattenOrder: categories
\* never step back along it, the variants of each category are that category's
\* list in its own order, and the length is the sum of the eight lengths.
IsFlattened(flat, role) ==
    /\ \A i, j \in 1..Len(flat) :
          i < j => Rank(flat[i].category) <= Rank(flat[j].category)
    /\ \A c \in Categories :
          SelectSeq(flat, LAMBDA v : v.category = c) = ListOf(role, c)
    /\ Len(flat) = SumOfLengths(role, Len(FlattenOrder))

\* C9: Role.permissions is the concatenation of the Role's eight lists in the
\* order cluster, collections, data, roles, users, backups, nodes, tenants, each
\* list in its own order, so its length is the sum of the eight lengths; for a
\* Role the parser returned this holds whatever the order of the permissions
\* on the wire, each category's part following the wire order within it.
C9_FlatteningOrder ==
    /\ op = "Role.permissions" => IsFlattened(ret.list, args.self)
    /\ Parsed =>
          /\ IsFlattened(Role_permissions(ret.role), ret.role)
          /\ \A c \in Categories :
                ActionsOf(SelectSeq(Role_permissions(ret.role), LAMBDA v : v.category = c))
                    = ActionsOf(Kept(WireIn, c))

\* Role.permissions was read on a Role with two variants in each of the eight
\* lists, and the first and last of the sixteen are cluster's and tenants'.
C9_Witness ==
    /\ op = "Role.permissions"
    /\ \A c \in Categories : Len(ListOf(args.self, c)) = 2
    /\ Len(ret.list) = 16
    /\ ret.list[1].category = "cluster"
    /\ ret.list[16].category = "tenants"

\* A Role parsed from a wire list that names tenants before cluster flattens
\* with cluster first.
C9_WitnessWire ==
    /\ Parsed
    /\ Len(WireIn) = 3
    /\ WireIn[1].action = TenantsAction.CREATE
    /\ WireIn[2].action = DataAction.READ
    /\ WireIn[3].action = ClusterAction.READ
    /\ ActionsOf(Role_permissions(ret.role))
          = <<ClusterAction.READ, DataAction.READ, TenantsAction.CREATE>>

\* --------------------------------------------------------------------- C10
\* The first category of `order` whose enum holds the action, "none" if none
\* does: the category an if/elif chain testing in that order chooses.
RECURSIVE FirstMatch(_, _)
FirstMatch(order, action) ==
    IF order = <<>> THEN "none"
    ELSE IF action \in ValuesOf(Head(order)) THEN Head(order)
    ELSE FirstMatch(Tail(order), action)

Reversed(order) == [i \in 1..Len(order) |-> order[Len(order) + 1 - i]]

\* C10: no action string is a value of two of the eight action enums; so for
\* every permission handed to the parser the category chosen is the same when
\* the categories are tested in the opposite order, and every variant of a
\* returned Role sits in the list of the one category that holds its action.
C10_Disjointness ==
    /\ \A c1, c2 \in Categories :
          c1 # c2 => ValuesOf(c1) \cap ValuesOf(c2) = {}
    /\ Parsing =>
          \A i \in 1..Len(WireIn) :
              /\ Cardinality(CategoriesOf(WireIn[i].action)) <= 1
              /\ FirstMatch(ParseOrder, WireIn[i].action)
                    = FirstMatch(Reversed(ParseOrder), WireIn[i].action)
    /\ Parsed =>
          \A c \in Categories :
              /\ \A i \in 1..Len(ListOf(ret.role, c)) :
                    /\ ListOf(ret.role, c)[i].category = c
                    /\ CategoriesOf(ListOf(ret.role, c)[i].action) = {c}
              /\ Len(ListOf(ret.role, c))
                    = Len(Kept(WireIn, c))

\* manage_data and read_collections were parsed from one wire list; the first
\* went to the data list and the second to the collections list.
C10_Witness ==
    /\ Parsed
    /\ Len(WireIn) = 2
    /\ WireIn[1].action = DataAction.MANAGE
    /\ WireIn[2].action = CollectionsAction.READ
    /\ ActionsOf(ret.role.data_permissions) = <<DataAction.MANAGE>>
    /\ ActionsOf(ret.role.collections_permissions) = <<CollectionsAction.READ>>

\* --------------------------------------------------------------------- C11
\* The category whose variants a builder of Permissions returns.
BuilderCategory ==
    CASE op = "Permissions.data" -> "data"
      [] op = "Permissions.collections" -> "collections"
      [] op = "Permissions.tenants" -> "tenants"
      [] op = "Permissions.roles" -> "roles"
      [] op = "Permissions.users" -> "users"
      [] op = "Permissions.backup" -> "backups"
      [] op = "Permissions.nodes" -> "nodes"
      [] op = "Permissions.cluster" -> "cluster"

Building == op \in ScopedBuilders \cup {"Permissions.cluster"}

\* C11: every variant a Permissions builder returns (each made by a factory)
\* is of the builder's category and has an action of that category's enum;
\* every variant Role._from_weaviate_role placed in a Role has an action of
\* its own category's enum and sits in the list of that category.
C11_ActionCategory ==
    /\ (Building /\ ReturnedList) =>
          \A i \in 1..Len(ret.list) :
              /\ ret.list[i].category = BuilderCategory
              /\ ret.list[i].action \in ValuesOf(ret.list[i].category)
    /\ Parsed =>
          \A c \in Categories :
              \A i \in 1..Len(ListOf(ret.role, c)) :
                  /\ ListOf(ret.role, c)[i].category = c
                  /\ ListOf(ret.role, c)[i].action \in ValuesOf(c)

\* Permissions.data returned create, read, update and delete variants for
\* each of two collections.
C11_Witness ==
    /\ op = "Permissions.data"
    /\ ReturnedList
    /\ Len(ret.list) = 8
    /\ ret.list[2] = DataPermission(ret.list[2].collection, DataAction.READ)

\* A wire list with a data and a roles permission was parsed into variants
\* of those categories.
C11_WitnessParsed ==
    /\ Parsed
    /\ Len(ret.role.data_permissions) = 1
    /\ Len(ret.role.roles_permissions) = 1
    /\ ret.role.roles_permissions[1].action \in Range(RolesAction_values)

\* --------------------------------------------------------------------- C12
\* The sub-object keys a wire permission can carry.
SubObjectKeys == Categories \ {"cluster"}

\* C12: for every variant, _to_weaviate returns a record whose action is the
\* variant's action and whose only other key is the sub-object key of the
\* variant's category, none at all for a Cluster variant; the record is the
\* one the projection gives again for the same variant.
C12_OneSubObject ==
    Projecting =>
        /\ ret.dict.action = args.self.action
        /\ DOMAIN ret.dict \ {"action"} =
              IF args.self.category = "cluster" THEN {} ELSE {args.self.category}
        /\ DOMAIN ret.dict \ {"action"} \subseteq SubObjectKeys
        /\ ret.dict = to_weaviate(args.self)

\* A Tenants variant was projected to a record with action and tenants only.
C12_Witness ==
    /\ Projecting
    /\ args.self.category = "tenants"
    /\ DOMAIN ret.dict = {"action", "tenants"}
    /\ ret.dict.action = TenantsAction.UPDATE

\* A Cluster variant was projected to a record with action only.
C12_WitnessCluster ==
    /\ Projecting
    /\ args.self.category = "cluster"
    /\ DOMAIN ret.dict = {"action"}

\* --------------------------------------------------------------------- C13
\* A wire permission whose action is of a category other than Cluster and
\* whose sub-object of that category is absent or null.
MissingSubObject(permission) ==
    \E c \in CategoriesOf(permission.action) \ {"cluster"} :
        c \notin DOMAIN permission \/ permission[c] = NoneValue

\* The outcome of parsing the wire role in hand with the permissions that
\* lack their sub-object taken out of the list.
ParsedWithoutMissing ==
    Role_from_weaviate_role(
        [name |-> args.role.name,
         permissions |-> SelectSeq(WireIn, LAMBDA p : ~MissingSubObject(p))])

\* C13: a wire permission of a category other than Cluster whose sub-object
\* is absent or null, whatever other sub-object it carries, has no effect on
\* the parse: the call raises, warns and returns exactly as it does for the
\* list without such permissions; a list of nothing but such permissions
\* gives a Role with eight empty lists, no warning and no error.
C13_MissingSubObjectDropped ==
    Parsing =>
        /\ raised = ParsedWithoutMissing.raised
        /\ warnings = ParsedWithoutMissing.warned
        /\ raised = NoError => ret.role = ParsedWithoutMissing.role
        /\ (\A i \in 1..Len(WireIn) : MissingSubObject(WireIn[i])) =>
              /\ raised = NoError
              /\ warnings = <<>>
              /\ Role_permissions(ret.role) = <<>>

\* delete_data without a data sub-object sits between two permissions the
\* parser accepts; the Role holds those two and nothing was warned or raised.
C13_Witness ==
    /\ Parsed
    /\ Len(WireIn) = 3
    /\ WireIn[1] = [action |-> ClusterAction.READ]
    /\ WireIn[2] = [action |-> DataAction.DELETE]
    /\ WireIn[3].action = DataAction.READ
    /\ Len(ret.role.cluster_permissions) = 1
    /\ ActionsOf(ret.role.data_permissions) = <<DataAction.READ>>
    /\ warnings = <<>>

\* read_tenants with a null tenants sub-object was dropped.
C13_WitnessNull ==
    /\ Parsed
    /\ WireIn = <<[action |-> TenantsAction.READ, tenants |-> NoneValue]>>
    /\ Role_permissions(ret.role) = <<>>
    /\ warnings = <<>>

\* update_collections carrying only a users sub-object was dropped.
C13_WitnessOtherCategory ==
    /\ Parsed
    /\ Len(WireIn) = 1
    /\ WireIn[1].action = CollectionsAction.UPDATE
    /\ DOMAIN WireIn[1] = {"action", "users"}
    /\ Role_permissions(ret.role) = <<>>
    /\ warnings = <<>>

\* --------------------------------------------------------------------- C14
\* The sub-objects of the wire permissions the parser turned into variants of
\* a category, in wire order.
SubObjectsKept(category) ==
    [i \in 1..Len(Kept(WireIn, category)) |-> Kept(WireIn, category)[i][category]]

\* The value of a field of a wire sub-object, or the given default when the
\* sub-object has no such field.
FieldOr(sub, field, default) == IF field \in DOMAIN sub THEN sub[field] ELSE default

\* Tenant of parsed Collections variants and collection of parsed Nodes
\* variants: the wire value when present, "*" when absent.
TenantAndCollectionDefaults ==
    /\ Len(ret.role.collections_permissions) = Len(SubObjectsKept("collections"))
    /\ \A i \in 1..Len(ret.role.collections_permissions) :
          ret.role.collections_permissions[i].tenant
              = FieldOr(SubObjectsKept("collections")[i], "tenant", "*")
    /\ Len(ret.role.nodes_permissions) = Len(SubObjectsKept("nodes"))
    /\ \A i \in 1..Len(ret.role.nodes_permissions) :
          ret.role.nodes_permissions[i].collection
              = FieldOr(SubObjectsKept("nodes")[i], "collection", Star)

\* C14 as stated: in a parsed Role an absent tenant of a Collections
\* permission is "*", an absent collection of a Nodes permission is "*", an
\* absent scope of a Roles permission is unset, and a tenant, collection or
\* scope that is present has its wire value.
C14_ParseDefaults ==
    Parsed =>
        /\ TenantAndCollectionDefaults
        /\ Len(ret.role.roles_permissions) = Len(SubObjectsKept("roles"))
        /\ \A i \in 1..Len(ret.role.roles_permissions) :
              ret.role.roles_permissions[i].scope
                  = FieldOr(SubObjectsKept("roles")[i], "scope", NoScope)

\* C14 amended: as stated for tenant and collection; an absent scope of a
\* Roles permission is unset, a present scope "match" or "all" is kept, and
\* a present empty scope is unset as well (no other scope yields a variant).
C14_ParseDefaultsEmptyScopeUnset ==
    Parsed =>
        /\ TenantAndCollectionDefaults
        /\ Len(ret.role.roles_permissions) = Len(SubObjectsKept("roles"))
        /\ \A i \in 1..Len(ret.role.roles_permissions) :
              LET given == FieldOr(SubObjectsKept("roles")[i], "scope", NoScope) IN
              /\ given \in Range(RoleScope_values) \cup {"", NoScope}
              /\ ret.role.roles_permissions[i].scope
                    = IF given = "" THEN NoScope ELSE given

\* A wire Nodes permission without collection was parsed to collection "*".
C14_Witness ==
    /\ Parsed
    /\ WireIn = <<[action |-> NodesAction.READ, nodes |-> [verbosity |-> "verbose"]]>>
    /\ ret.role.nodes_permissions = <<NodesPermission(Star, "verbose", NodesAction.READ)>>

\* A wire Collections permission without tenant was parsed to tenant "*".
C14_WitnessTenant ==
    /\ Parsed
    /\ WireIn = <<[action |-> CollectionsAction.READ,
                   collections |-> [collection |-> <<"F", "o", "o">>]]>>
    /\ ret.role.collections_permissions[1].tenant = "*"

\* A wire Roles permission with the empty scope was parsed to scope unset.
C14_WitnessEmptyScope ==
    /\ Parsed
    /\ WireIn = <<[action |-> RolesAction.READ, roles |-> [role |-> "admin", scope |-> ""]]>>
    /\ ret.role.roles_permissions[1].scope = NoScope

\* --------------------------------------------------------------------- C15
\* The variant of a category that an accepted wire permission stands for.
VariantOf(category, permission) ==
    LET sub == IF category = "cluster" THEN NoneValue ELSE permission[category] IN
    CASE category = "cluster" -> ClusterPermission(permission.action)
      [] category = "users" -> UsersPermission(permission.action, sub.users)
      [] category = "collections" ->
            CollectionsPermission(sub.collection, FieldOr(sub, "tenant", "*"), permission.action)
      [] category = "tenants" -> TenantsPermission(sub.collection, permission.action)
      [] category = "roles" ->
            RolesPermission(sub.role,
                IF FieldOr(sub, "scope", NoScope) = "" THEN NoScope
                ELSE FieldOr(sub, "scope", NoScope),
                permission.action)
      [] category = "data" -> DataPermission(sub.collection, permission.action)
      [] category = "backups" -> BackupsPermission(sub.collection, permission.action)
      [] category = "nodes" ->
            NodesPermission(FieldOr(sub, "collection", Star), sub.verbosity, permission.action)

\* C15: in the Role that Role._from_weaviate_role returns, each of the eight
\* lists holds exactly one variant per accepted wire permission of its
\* category, in the order those permissions have in the wire list, and the
\* Role's name is the wire role's name.
C15_InsertionOrder ==
    Parsed =>
        /\ ret.role.name = args.role.name
        /\ \A c \in Categories :
              /\ Len(ListOf(ret.role, c)) = Len(Kept(WireIn, c))
              /\ \A i \in 1..Len(ListOf(ret.role, c)) :
                    ListOf(ret.role, c)[i] = VariantOf(c, Kept(WireIn, c)[i])

\* manage_data, read_cluster, read_data were parsed for the role "viewer":
\* the data list holds manage_data before read_data.
C15_Witness ==
    /\ Parsed
    /\ args.role.name = "viewer"
    /\ ActionsOf(WireIn) = <<DataAction.MANAGE, ClusterAction.READ, DataAction.READ>>
    /\ ActionsOf(ret.role.data_permissions) = <<DataAction.MANAGE, DataAction.READ>>
    /\ ret.role.name = "viewer"

\* --------------------------------------------------------------------- C16
\* The values() list of a category's enum: its members in declaration order.
DeclaredActions(category) ==
    CASE category = "cluster" -> ClusterAction_values
      [] category = "users" -> UsersAction_values
      [] category = "collections" -> CollectionsAction_values
      [] category = "tenants" -> TenantsAction_values
      [] category = "roles" -> RolesAction_values
      [] category = "data" -> DataAction_values
      [] category = "backups" -> BackupsAction_values
      [] category = "nodes" -> NodesAction_values

\* The place of an action in the declaration order of a category's enum.
DeclaredIndex(category, action) ==
    CHOOSE k \in 1..Len(DeclaredActions(category)) : DeclaredActions(category)[k] = action

\* The number of scoping values of the builder call in hand (cluster has no
\* scoping value and emits one group).
Groups == IF op = "Permissions.cluster" THEN 1 ELSE Len(ScopingValues)

\* The number of variants the call returned per scoping value.
GroupSize == Len(ret.list) \div Groups

\* C16 as stated: in the list a builder returns, the variants emitted for one
\* scoping value carry their actions in the order in which the category's
\* action enum declares them (for Roles: the order of RolesAction).
C16_DeclaredActionOrder ==
    (Building /\ ReturnedList /\ Len(ret.list) > 0) =>
        \A i, j \in 1..Len(ret.list) :
            (i < j /\ (i - 1) \div GroupSize = (j - 1) \div GroupSize) =>
                DeclaredIndex(BuilderCategory, ret.list[i].action)
                    < DeclaredIndex(BuilderCategory, ret.list[j].action)

\* --------------------------------------------------------------------- C17
\* The actions carried by the variants a builder call returned.
ActionsReturned(outcome) ==
    IF outcome.raised = NoError
        THEN {outcome.ret.list[i].action : i \in 1..Len(outcome.ret.list)}
        ELSE {}

\* The actions the builder in hand can return for the scoping value in hand,
\* over every setting of its flags.
EmittableActions ==
    CASE op = "Permissions.data" ->
            UNION {ActionsReturned(Permissions_data(args.collection, c, r, u, d)) :
                      c \in BOOLEAN, r \in BOOLEAN, u \in BOOLEAN, d \in BOOLEAN}
      [] op = "Permissions.collections" ->
            UNION {ActionsReturned(Permissions_collections(args.collection, c, r, u, d)) :
                      c \in BOOLEAN, r \in BOOLEAN, u \in BOOLEAN, d \in BOOLEAN}
      [] op = "Permissions.tenants" ->
            UNION {ActionsReturned(Permissions_tenants(args.collection, c, r, u, d)) :
                      c \in BOOLEAN, r \in BOOLEAN, u \in BOOLEAN, d \in BOOLEAN}
      [] op = "Permissions.roles" ->
            UNION {ActionsReturned(Permissions_roles(args.role, r, m)) :
                      r \in BOOLEAN, m \in ManageValues}
      [] op = "Permissions.users" ->
            UNION {ActionsReturned(Permissions_users(args.user, a)) : a \in BOOLEAN}
      [] op = "Permissions.backup" ->
            UNION {ActionsReturned(Permissions_backup(args.collection, m)) : m \in BOOLEAN}
      [] op = "Permissions.nodes" ->
            UNION {ActionsReturned(Permissions_nodes(args.collection, args.verbosity, r)) :
                      r \in BOOLEAN}
      [] op = "Permissions.cluster" ->
            UNION {ActionsReturned(Permissions_cluster(r)) : r \in BOOLEAN}

\* The builder call in hand was given at least one scoping value (cluster
\* takes none).
Scoped == op \in ScopedBuilders => (Scoping # Omitted /\ Len(ScopingValues) > 0)

\* C17 as stated: for every builder and every action of its category's enum,
\* manage_data and manage_collections included, some setting of the builder's
\* flags returns a variant carrying that action.
C17_FlagPerAction ==
    (Building /\ Scoped) => ValuesOf(BuilderCategory) \subseteq EmittableActions

\* The actions no builder flag stands for.
WithoutFlag == {DataAction.MANAGE, CollectionsAction.MANAGE}

\* What holds instead: every action but the two manage actions has a flag, and
\* no flag setting returns manage_data or manage_collections.
C17_FlagPerActionButManage ==
    (Building /\ Scoped) =>
        /\ ValuesOf(BuilderCategory) \ WithoutFlag \subseteq EmittableActions
        /\ EmittableActions \cap WithoutFlag = {}

\* --------------------------------------------------------------------- C18
\* The wire Tenants permission with the given tenant in place of its own.
WithTenant(permission, tenant) ==
    [permission EXCEPT !.tenants = [collection |-> permission.tenants.collection,
                                    tenant |-> tenant]]

\* The wire Tenants permission without a tenant.
WithoutTenant(permission) ==
    [permission EXCEPT !.tenants = [collection |-> permission.tenants.collection]]

\* C18: _TenantsPermission._to_weaviate emits tenants.tenant "*" for every
\* Tenants variant; a parsed Tenants variant has no tenant, is the variant
\* parsed from the same wire permission with any other tenant or none, and
\* is sent back with tenants.tenant "*".
C18_TenantAlwaysStar ==
    /\ (Projecting /\ args.self.category = "tenants") =>
          ret.dict.tenants.tenant = "*"
    /\ Parsed =>
          LET wire == Kept(WireIn, "tenants") IN
          /\ Len(ret.role.tenants_permissions) = Len(wire)
          /\ \A i \in 1..Len(wire) :
                LET variant == ret.role.tenants_permissions[i] IN
                /\ DOMAIN variant = {"category", "collection", "action"}
                /\ \A t \in TenantNames :
                      Role_permissions(ParsedBack(WithTenant(wire[i], t)).role) = <<variant>>
                /\ Role_permissions(ParsedBack(WithoutTenant(wire[i])).role) = <<variant>>
                /\ to_weaviate(variant).tenants.tenant = "*"

\* A wire Tenants permission naming tenantA was parsed; the variant goes back
\* to the wire with tenant "*".
C18_Witness ==
    /\ Parsed
    /\ Len(WireIn) = 1
    /\ WireIn[1].action = TenantsAction.CREATE
    /\ "tenants" \in DOMAIN WireIn[1]
    /\ WireIn[1].tenants = [collection |-> <<"f", "o", "o">>, tenant |-> "tenantA"]
    /\ to_weaviate(ret.role.tenants_permissions[1]).tenants.tenant = "*"

\* A Tenants variant was projected with tenant "*".
C18_WitnessOutbound ==
    /\ Projecting
    /\ args.self = TenantsPermission(<<"f", "o", "o">>, TenantsAction.DELETE)
    /\ ret.dict.tenants = [collection |-> <<"F", "o", "o">>, tenant |-> "*"]

\* --------------------------------------------------------------------- C19
\* An append-type operation that is not an AppendPropertyOperation.
NotAppendProperty(operation) ==
    /\ operation.operation_type = OperationType.APPEND
    /\ operation.class # "AppendPropertyOperation"

\* The request update_all sends for a configured operation.
RequestFor(operation) ==
    IF Unwrapped(operation).operation_type = OperationType.APPEND
        THEN AppendRequest(Unwrapped(operation))
        ELSE UpdateRequest(Unwrapped(operation))

\* A reply that lets the loop go on.
Succeeded(reply) == reply.status_code < ErrorStatus /\ "workflow_id" \in DOMAIN reply

\* C19: update_all sends the requests of the configured operations one after
\* another in list order, a DependentOperationStep unwrapped: the i-th request
\* is that of the i-th operation, and it is sent only after every earlier
\* request was answered with success, so at most one request is unanswered.
\* When every request succeeded it returns one TransformationResponse per
\* operation, in order, with the operation's property name and the workflow id
\* of its reply.  A reply with status >= 400 raises Exception, and an
\* append-type operation that is not an AppendPropertyOperation raises
\* ValueError before its request is sent; once it raised, update_all returns
\* no list and sent no request for a later operation.
C19_SequentialExecution ==
    /\ Len(requests) <= Len(operations)
    /\ \A i \in 1..Len(requests) :
          /\ requests[i] = RequestFor(operations[i])
          /\ ~NotAppendProperty(Unwrapped(operations[i]))
    /\ Len(replies) <= Len(requests)
    /\ Len(requests) <= Len(replies) + 1
    /\ \A i \in 1..(Len(requests) - 1) : Succeeded(replies[i])
    /\ Len(requests) = Len(replies) + 1 =>
          (pc = "awaiting" \/ (pc = "raised" /\ exception = "httpx.HTTPError"))
    /\ pc = "returned" =>
          /\ exception = NoError
          /\ Len(requests) = Len(operations)
          /\ \A i \in 1..Len(replies) : Succeeded(replies[i])
          /\ result = [list |-> [i \in 1..Len(operations) |->
                TransformationResponse(Unwrapped(operations[i]).property_name,
                                       replies[i].workflow_id)]]
    /\ pc # "returned" => result = NoneValue
    /\ (\E i \in 1..Len(replies) : replies[i].status_code >= ErrorStatus) =>
          /\ pc = "raised"
          /\ exception = "Exception"
          /\ replies[Len(replies)].status_code >= ErrorStatus
          /\ Len(requests) = Len(replies)
    /\ (pc \in {"loop", "raised"} /\ index <= Len(operations)
            /\ Len(requests) = index - 1
            /\ NotAppendProperty(CurrentOperation)) =>
          (pc = "loop" \/ exception = "ValueError")
    /\ exception = "ValueError" =>
          /\ pc = "raised"
          /\ NotAppendProperty(CurrentOperation)
          /\ Len(requests) = index - 1
    /\ pc = "raised" =>
          /\ exception # NoError
          /\ index <= Len(operations)
          /\ Len(requests) <= index
    /\ pc = "raised" <=> exception # NoError

\* update_all returned the responses of a DependentOperationStep for "p" and
\* an operation for "q", in that order.
C19_Witness ==
    /\ pc = "returned"
    /\ Len(operations) = 2
    /\ operations[1].class = "DependentOperationStep"
    /\ operations[1].operation.property_name = "p"
    /\ operations[2].class # "DependentOperationStep"
    /\ operations[2].property_name = "q"
    /\ Len(requests) = 2
    /\ result.list[1].operation_name = "p"
    /\ result.list[2].operation_name = "q"

\* The first of two requests was answered with status 400: update_all raised
\* and the second request was not sent.
C19_WitnessFailed ==
    /\ pc = "raised"
    /\ exception = "Exception"
    /\ Len(operations) = 2
    /\ Len(requests) = 1
    /\ replies[1].status_code = 400

\* The second operation is append-type but no AppendPropertyOperation:
\* update_all raised ValueError after the first request and sent no second.
C19_WitnessValueError ==
    /\ pc = "raised"
    /\ exception = "ValueError"
    /\ index = 2
    /\ Len(requests) = 1
    /\ Len(responses) = 1

====
